---------------------------- MODULE Spec2Model ----------------------------
(***************************************************************************)
(* TechConnect (src/app.py): the Flask request handlers as a state         *)
(* machine over the session cookie, the relational store and the two       *)
(* upload directories.  One action per request handler; a handler runs to  *)
(* completion within one step.  The update branch of edit_post and the     *)
(* picture uploads are also taken statement by statement, by workers       *)
(* whose steps interleave.                                                 *)
(*                                                                         *)
(* The query modules user_queries, post_queries and helper are imported   *)
(* by app.py; their operations are modelled from the specification of the  *)
(* repository.                                                             *)
(***************************************************************************)
EXTENDS Integers, Sequences, FiniteSets, TLC

VARIABLES
    session,     \* the Flask session: a function from the keys present to values
    userpass,    \* accounts: uid -> [username, password]
    users,       \* profile attributes: uid -> record of attributes
    picfile,     \* profile picture records: uid -> filename
    profileDir,  \* filenames present in PROFILE_UPLOADS
    posts,       \* post records: post_id -> record
    postfiles,   \* attachment records: set of [post_id, filename]
    postDir,     \* filenames present in POST_UPLOADS
    nextPid,     \* next auto-increment post id
    req,         \* the request handled last
    resp,        \* the response to it
    flight       \* requests being handled step by step: worker -> its position

vars == <<session, userpass, users, picfile, profileDir, posts, postfiles,
          postDir, nextPid, req, resp, flight>>

store == <<userpass, users, picfile, posts, postfiles, nextPid>>
uploads == <<profileDir, postDir>>

-----------------------------------------------------------------------------
(* Bounds of the model *)

MaxPosts == 2     \* posts ever created
MaxVisits == 2    \* cap on the session's visits counter
MaxHops == 3      \* redirects a client follows in a row

-----------------------------------------------------------------------------
(* Input domains *)

Usernames == {"ann", "bob"}
Passwords == {"pw1", "pw2"}
Uids == 1 .. Cardinality(Usernames)
Pids == 1 .. MaxPosts

\* A filename is a sequence of tokens: words and the separator characters.
EmptyName == << >>
APdf == <<"a", ".", "pdf">>
BPng == <<"b", ".", "png">>
AExe == <<"a", ".", "exe">>
NoDot == <<"a">>

\* Filenames a client submits for a profile picture.
PicUploadNames == {EmptyName, BPng, AExe}

Null == "NULL"

\* A file part of a multipart request: it may be missing from the request, and
\* when present it carries the client's filename ('' when no file was chosen).
NoPart == [present |-> FALSE, filename |-> EmptyName]
Part(name) == [present |-> TRUE, filename |-> name]

\* The file[] lists a client submits to create_post.
NewFileLists ==
    {<< >>, <<Part(EmptyName)>>, <<Part(APdf)>>, <<Part(AExe)>>, <<Part(NoDot)>>,
     <<Part(APdf), Part(AExe)>>, <<Part(AExe), Part(APdf)>>,
     <<Part(APdf), Part(APdf)>>}


-----------------------------------------------------------------------------
(* Filenames *)

ToStr(n) == CASE n = 0 -> "0" [] n = 1 -> "1" [] n = 2 -> "2" [] n = 3 -> "3"
              [] n = 4 -> "4" [] n = 5 -> "5" [] n = 6 -> "6" [] n = 7 -> "7"
              [] n = 8 -> "8" [] OTHER -> "9"

Lower(tok) == CASE tok = "PDF" -> "pdf" [] tok = "PNG" -> "png" [] OTHER -> tok

\* Index of the last "." token of a name, 0 when it has none.
LastDot(name) ==
    LET dots == {i \in DOMAIN name : name[i] = "."}
    IN  IF dots = {} THEN 0 ELSE CHOOSE i \in dots : \A j \in dots : j <= i

\* str.strip("._") on a token sequence.
RECURSIVE StripLeft(_, _)
StripLeft(name, drop) ==
    IF name # << >> /\ Head(name) \in drop THEN StripLeft(Tail(name), drop) ELSE name

RECURSIVE StripRight(_, _)
StripRight(name, drop) ==
    IF name # << >> /\ name[Len(name)] \in drop
    THEN StripRight(SubSeq(name, 1, Len(name) - 1), drop)
    ELSE name

Strip(name, drop) == StripRight(StripLeft(name, drop), drop)

\* "_".join(name.split()): runs of whitespace become one "_", none at the ends.
RECURSIVE JoinSplit(_)
JoinSplit(name) ==
    IF name = << >> THEN << >>
    ELSE IF Head(name) = " "
         THEN IF Len(name) >= 2 /\ name[2] = " "
              THEN JoinSplit(Tail(name))
              ELSE <<"_">> \o JoinSplit(Tail(name))
         ELSE <<Head(name)>> \o JoinSplit(Tail(name))

\* werkzeug.utils.secure_filename: path separators become whitespace, whitespace
\* runs become "_", and leading and trailing "." and "_" are stripped.
secure_filename(name) ==
    LET spaced == [i \in DOMAIN name |-> IF name[i] = "/" THEN " " ELSE name[i]]
    IN  Strip(JoinSplit(Strip(spaced, {" "})), {".", "_"})

ALLOWED_EXTENSIONS ==
    {"png", "jpg", "jpeg", "webp", "pdf", "doc", "docx", "xls", "xlsx"}

allowed_extensions == {"png", "jpg", "jpeg"}

\* file.filename.rsplit('.', 1)[1].lower(); raises IndexError without a dot.
HasDot(name) == LastDot(name) # 0
PostExt(name) ==
    LET e == SubSeq(name, LastDot(name) + 1, Len(name))
    IN  [i \in DOMAIN e |-> Lower(e[i])]

\* user_filename.split('.')[-1]
PicExt(name) == SubSeq(name, LastDot(name) + 1, Len(name))

IsAllowed(ext, allowed) == Len(ext) = 1 /\ ext[1] \in allowed

\* save_post_file: "ok" with the stored name, "none" for an empty upload,
\* "raise" when the extension is refused or the name has no dot.
PostFilenameBare(post_id, name) == secure_filename(name)

PostFilename(post_id, name) == secure_filename(<<ToStr(post_id), "_">> \o name)

save_post_file(name, post_id) ==
    IF name = EmptyName THEN [result |-> "none", filename |-> EmptyName]
    ELSE IF ~HasDot(name) THEN [result |-> "raise", filename |-> EmptyName]
    ELSE IF ~IsAllowed(PostExt(name), ALLOWED_EXTENSIONS)
         THEN [result |-> "raise", filename |-> EmptyName]
    ELSE [result |-> "ok", filename |-> PostFilename(post_id, name)]

PicFilename(user_id, ext) == secure_filename(<<ToStr(user_id), ".">> \o ext)

-----------------------------------------------------------------------------
(* Session *)

Has(key) == key \in DOMAIN session

Pop(s, key) == [k \in (DOMAIN s) \ {key} |-> s[k]]

Put(s, key, value) ==
    [k \in (DOMAIN s) \cup {key} |-> IF k = key THEN value ELSE s[k]]

is_logged_in == Has("user_id")

\* session.get('user_id'), 0 standing for None
SessionUid == IF Has("user_id") THEN session.user_id ELSE 0

-----------------------------------------------------------------------------
(* Requests and responses *)

NotLoggedInMsg == "Session has expired or you are not logged in."

Response(kind, page, arg, flash, db, file) ==
    [kind |-> kind, page |-> page, arg |-> arg, flash |-> flash, db |-> db,
     file |-> file]

Render(page, flash, db) == Response("render", page, 0, flash, db, EmptyName)
Redirect(page, arg, flash, db) == Response("redirect", page, arg, flash, db, EmptyName)
SendFile(dir, file, db) == Response("file", dir, 0, << >>, db, file)
\* an exception no handler catches: the framework answers 500
Unhandled(flash, db) == Response("error", "500", 0, flash, db, EmptyName)

\* The routes whose URL has a variable part: url_for raises BuildError when
\* the value is not given.
RoutesWithArg == {"profile_pic", "post_file", "profile", "post", "edit_post"}

Buildable(page, arg) == page \in RoutesWithArg => arg # 0

\* redirect(url_for(page, ...)): the BuildError of a URL that cannot be built
\* is caught by no handler.
RedirectTo(page, arg, flash, db) ==
    IF Buildable(page, arg) THEN Redirect(page, arg, flash, db)
    ELSE Response("error", page, arg, flash, db, EmptyName)

Request(handler, method, arg) ==
    [handler |-> handler, method |-> method, arg |-> arg, uid |-> SessionUid]

NoRequest == [handler |-> "", method |-> "", arg |-> 0, uid |-> 0]
NoResponse == Response("none", "", 0, << >>, {}, EmptyName)

\* No request is being answered.
Idle == resp = NoResponse

Flashed(msg) == \E i \in DOMAIN resp.flash : resp.flash[i] = msg

-----------------------------------------------------------------------------
(* user_queries: accounts and profiles *)

NullProfile ==
    [major |-> Null, is_interested_in_mentorship |-> Null, career_interests |-> Null]

UsernameTaken(username) == \E u \in DOMAIN userpass : userpass[u].username = username

\* insert_user: a new row with the next uid; IntegrityError on a taken username.
NewUid == Cardinality(DOMAIN userpass) + 1

\* login_user: 0 for "no such username" (None), -1 for a wrong password (False),
\* else the uid of the matched account.
login_user(username, password) ==
    IF ~UsernameTaken(username) THEN 0
    ELSE LET u == CHOOSE x \in DOMAIN userpass : userpass[x].username = username
         IN  IF userpass[u].password = password THEN u ELSE 0 - 1

\* serve_profile_picture: the user's picture record, "none" without one.
HasPic(user_id) == user_id \in DOMAIN picfile

\* helper.convert_to_bool, helper.convert_to_None and the career_interests join
convert_to_bool(v) == IF v \in {"true", "on"} THEN "TRUE" ELSE "FALSE"
convert_to_None(v) == IF v \in {"", "None"} THEN Null ELSE v

RECURSIVE Join(_)
Join(list) ==
    IF list = << >> THEN ""
    ELSE IF Len(list) = 1 THEN list[1]
    ELSE list[1] \o ", " \o Join(Tail(list))

UserData(form) ==
    [major |-> convert_to_None(form.major),
     is_interested_in_mentorship |-> convert_to_bool(form.is_interested_in_mentorship),
     career_interests |-> convert_to_None(Join(form.career_interests))]

ProfileForms ==
    {[major |-> "cs", is_interested_in_mentorship |-> "on",
      career_interests |-> <<"tech", "law">>],
     [major |-> "", is_interested_in_mentorship |-> "no",
      career_interests |-> << >>]}

-----------------------------------------------------------------------------
(* Welcome, home, signup, login, logout *)

indexPage ==
    IF ~Has("user_id")
    THEN Render("auth/welcome.html", << >>, {})
    ELSE Redirect("home", 0, << >>, {})

index ==
    /\ Idle
    /\ UNCHANGED flight
    /\ req' = Request("index", "GET", 0)
    /\ resp' = indexPage
    /\ UNCHANGED <<session, store, uploads>>

homePage ==
    IF ~is_logged_in
    THEN Redirect("index", 0, <<NotLoggedInMsg>>, {})
    ELSE Render("home/index.html", << >>,
                {"get_user_name_by_uid", "get_latest_posts", "get_posts_by_user"})

home ==
    /\ Idle
    /\ UNCHANGED flight
    /\ req' = Request("home", "GET", 0)
    /\ resp' = homePage
    /\ UNCHANGED <<session, store, uploads>>

PasswordsDifferAlways(passwd1, passwd2) == FALSE

PasswordsDiffer(passwd1, passwd2) == passwd1 # passwd2

SignupSession(s, username, uid) ==
    Put(Put(Put(Put(s, "username", username), "user_id", uid), "logged_in", TRUE),
        "visits", 1)

signupGet ==
    /\ Idle
    /\ UNCHANGED flight
    /\ req' = Request("signup", "GET", 0)
    /\ resp' = Render("auth/signup.html", << >>, {})
    /\ UNCHANGED <<session, store, uploads>>

signupPost(username, passwd1, passwd2) ==
    /\ Idle
    /\ UNCHANGED flight
    /\ req' = Request("signup", "POST", 0) @@
               [username |-> username, passwd1 |-> passwd1, passwd2 |-> passwd2]
    /\ IF PasswordsDiffer(passwd1, passwd2)
       THEN /\ resp' = Render("auth/signup.html",
                              <<"Passwords do not match. Please try again!">>, {})
            /\ UNCHANGED <<session, userpass, users>>
       ELSE IF UsernameTaken(username)
       THEN \* insert_user raises IntegrityError(DUP_ENTRY)
            /\ resp' = Render("auth/signup.html",
                              <<"Username " \o username \o
                                " is already taken. Please choose another one.">>,
                              {"insert_user"})
            /\ UNCHANGED <<session, userpass, users>>
       ELSE /\ userpass' = Put(userpass, NewUid,
                               [username |-> username, password |-> passwd1])
            /\ users' = Put(users, NewUid, NullProfile)
            /\ session' = SignupSession(session, username, NewUid)
            /\ resp' = Redirect("profile_setup", 0,
                                <<"Welcome! Complete your profile to get started.">>,
                                {"insert_user"})
    /\ UNCHANGED <<picfile, posts, postfiles, nextPid, uploads>>

VisitsReset(s) == 1

\* The visit counter a successful login leaves in the session.
Visits(s) == IF "visits" \in DOMAIN s THEN s.visits + 1 ELSE 1

login(username, password) ==
    LET result == login_user(username, password) IN
    /\ Idle
    /\ UNCHANGED flight
    /\ req' = Request("login", "POST", 0) @@
               [username |-> username, password |-> password]
    /\ IF result = 0
       THEN /\ resp' = Redirect("index", 0,
                   <<"User with this username does not exist. Please try again.">>,
                   {"login_user"})
            /\ UNCHANGED session
       ELSE IF result < 0
       THEN /\ resp' = Redirect("index", 0,
                   <<"Incorrect password. Please try again.">>, {"login_user"})
            /\ UNCHANGED session
       ELSE /\ Has("visits") => session.visits < MaxVisits
            /\ session' = Put(Put(Put(Put(session, "user_id", result),
                                      "username", username), "logged_in", TRUE),
                              "visits", Visits(session))
            /\ resp' = Redirect("home", 0, <<"Welcome back! Login successful.">>,
                                {"login_user"})
    /\ UNCHANGED <<store, uploads>>

\* session.pop of the three login keys, in the order of the code; the first
\* missing key raises KeyError.
PopKeysShort == <<"username", "user_id">>

PopKeys == <<"username", "user_id", "logged_in">>

CanPopAll(s) == \A i \in DOMAIN PopKeys : PopKeys[i] \in DOMAIN s
RECURSIVE PopUntilMissing(_, _)
PopUntilMissing(s, keys) ==
    IF keys = << >> \/ Head(keys) \notin DOMAIN s THEN s
    ELSE PopUntilMissing(Pop(s, Head(keys)), Tail(keys))

logout ==
    /\ Idle
    /\ UNCHANGED flight
    /\ req' = Request("logout", "POST", 0)
    /\ IF is_logged_in
       THEN /\ session' = PopUntilMissing(session, PopKeys)
            /\ resp' = IF CanPopAll(session)
                       THEN Redirect("index", 0, <<"You are logged out">>, {})
                       ELSE Unhandled(<< >>, {})
       ELSE /\ resp' = Redirect("index", 0, <<NotLoggedInMsg>>, {})
            /\ UNCHANGED session
    /\ UNCHANGED <<store, uploads>>

\* The secret key is drawn anew at every start of the server, so a restart
\* leaves every client with an empty session.
restart ==
    /\ Idle
    /\ UNCHANGED flight
    /\ session # << >>
    /\ session' = << >>
    /\ UNCHANGED <<req, resp, store, uploads>>

\* The response reaches the client and the request is over; requests are
\* answered one at a time.
deliver ==
    /\ ~Idle
    /\ UNCHANGED flight
    /\ req' = NoRequest
    /\ resp' = NoResponse
    /\ UNCHANGED <<session, store, uploads>>

-----------------------------------------------------------------------------
(* Profiles *)

DefaultPic == <<"default_profile", ".", "png">>

profile_pic(user_id) ==
    /\ Idle
    /\ UNCHANGED flight
    /\ req' = Request("profile_pic", "GET", user_id)
    /\ resp' = IF ~is_logged_in
               THEN Redirect("index", 0, <<NotLoggedInMsg>>, {})
               ELSE LET name == IF HasPic(user_id) THEN picfile[user_id]
                                ELSE DefaultPic
                    IN  IF name \in profileDir
                        THEN SendFile("PROFILE_UPLOADS", name, {"serve_profile_picture"})
                        ELSE Response("notfound", "404", 0, << >>,
                                      {"serve_profile_picture"}, name)
    /\ UNCHANGED <<session, store, uploads>>

profilePage(user_id) ==
    IF ~is_logged_in
    THEN Redirect("index", 0, <<NotLoggedInMsg>>, {})
    ELSE IF user_id \in DOMAIN users
    THEN Render("profile/view.html", << >>, {"get_profile"})
    ELSE Redirect("home", 0, <<"User profile not found..">>, {"get_profile"})

profile(user_id) ==
    /\ Idle
    /\ UNCHANGED flight
    /\ req' = Request("profile", "GET", user_id)
    /\ resp' = profilePage(user_id)
    /\ UNCHANGED <<session, store, uploads>>

InvalidPicMsg == "Invalid file type. Only image files are allowed."

profile_setupPage ==
    IF SessionUid = 0
    THEN Redirect("index", 0, <<"User not logged in.">>, {})
    ELSE Render("profile/setup.html", << >>, {})

profile_setupGet ==
    /\ Idle
    /\ UNCHANGED flight
    /\ req' = Request("profile_setup", "GET", 0)
    /\ resp' = profile_setupPage
    /\ UNCHANGED <<session, store, uploads>>

profile_setupPost(form, pic) ==
    LET user_id == SessionUid
        ext == PicExt(pic.filename)
        filename == PicFilename(user_id, ext)
    IN
    /\ Idle
    /\ UNCHANGED flight
    /\ req' = Request("profile_setup", "POST", 0) @@ [form |-> form, pic |-> pic]
    /\ IF user_id = 0
       THEN /\ resp' = Redirect("index", 0, <<"User not logged in.">>, {})
            /\ UNCHANGED <<users, picfile, profileDir>>
       ELSE \* add_user_info runs before the picture is looked at
            /\ users' = [users EXCEPT ![user_id] = UserData(form)]
            /\ IF ~pic.present
               THEN \* request.files['pic'] raises; caught by the handler
                    /\ resp' = Render("profile/setup.html",
                                  <<"Error setting up profile. Please try again.">>,
                                  {"add_user_info"})
                    /\ UNCHANGED <<picfile, profileDir>>
               ELSE IF pic.filename = EmptyName
               THEN /\ resp' = Redirect("profile", user_id, << >>, {"add_user_info"})
                    /\ UNCHANGED <<picfile, profileDir>>
               ELSE IF ~IsAllowed(ext, allowed_extensions)
               THEN /\ resp' = Render("profile/setup.html", <<InvalidPicMsg>>,
                                      {"add_user_info"})
                    /\ UNCHANGED <<picfile, profileDir>>
               ELSE /\ profileDir' = profileDir \cup {filename}
                    /\ picfile' = Put(picfile, user_id, filename)
                    /\ resp' = Redirect("profile", user_id, << >>,
                                        {"add_user_info", "upload_profile_pic"})
    /\ UNCHANGED <<session, userpass, posts, postfiles, nextPid, postDir>>

update_profileGet ==
    /\ Idle
    /\ UNCHANGED flight
    /\ req' = Request("update_profile", "GET", 0)
    /\ resp' = IF ~is_logged_in
               THEN Redirect("index", 0, <<NotLoggedInMsg>>, {})
               ELSE Render("profile/update.html", << >>, {"get_profile"})
    /\ UNCHANGED <<session, store, uploads>>

update_profilePost(form, delete_file, pic) ==
    LET user_id == SessionUid
        ext == PicExt(pic.filename)
        filename == PicFilename(user_id, ext)
        updated == <<"Your profile was updated successfully!">>
    IN
    /\ Idle
    /\ UNCHANGED flight
    /\ req' = Request("update_profile", "POST", 0) @@
               [form |-> form, delete_file |-> delete_file, pic |-> pic]
    /\ IF ~is_logged_in
       THEN /\ resp' = Redirect("index", 0, <<NotLoggedInMsg>>, {})
            /\ UNCHANGED <<users, picfile, profileDir>>
       ELSE IF ~pic.present
       THEN \* request.files['pic'] raises outside any try
            /\ resp' = Unhandled(<< >>, {})
            /\ UNCHANGED <<users, picfile, profileDir>>
       ELSE IF delete_file = "yes"
       THEN /\ IF HasPic(user_id) /\ picfile[user_id] \in profileDir
               THEN /\ profileDir' = profileDir \ {picfile[user_id]}
                    /\ picfile' = Pop(picfile, user_id)
                    /\ resp' = Redirect("profile", user_id,
                                   <<"Profile picture deleted successfully.">> \o updated,
                                   {"serve_profile_picture", "delete_profile_pic",
                                    "update_profile"})
               ELSE /\ resp' = Redirect("profile", user_id, updated,
                                   {"serve_profile_picture", "update_profile"})
                    /\ UNCHANGED <<picfile, profileDir>>
            /\ users' = [users EXCEPT ![user_id] = UserData(form)]
       ELSE IF pic.filename # EmptyName /\ ~IsAllowed(ext, allowed_extensions)
       THEN /\ resp' = Render("profile/update.html", <<InvalidPicMsg>>, {"get_profile"})
            /\ UNCHANGED <<users, picfile, profileDir>>
       ELSE IF pic.filename # EmptyName
       THEN /\ profileDir' = profileDir \cup {filename}
            /\ picfile' = Put(picfile, user_id, filename)
            /\ users' = [users EXCEPT ![user_id] = UserData(form)]
            /\ resp' = Redirect("profile", user_id, updated,
                                {"upload_profile_pic", "update_profile"})
       ELSE /\ users' = [users EXCEPT ![user_id] = UserData(form)]
            /\ resp' = Redirect("profile", user_id, updated, {"update_profile"})
            /\ UNCHANGED <<picfile, profileDir>>
    /\ UNCHANGED <<session, userpass, posts, postfiles, nextPid, postDir>>

\* delete_profile has no login check: it reads session.get('user_id') and goes
\* straight to the store.  delete_user nullifies the attributes of the row with
\* that uid (none when the uid is None).
delete_profile ==
    LET user_id == SessionUid
        removePic == HasPic(user_id) /\ picfile[user_id] \in profileDir
        db == {"delete_user", "serve_profile_picture"} \cup
              (IF removePic THEN {"delete_profile_pic"} ELSE {})
    IN
    /\ Idle
    /\ UNCHANGED flight
    /\ req' = Request("delete_profile", "POST", 0)
    /\ users' = IF user_id \in DOMAIN users
                THEN [users EXCEPT ![user_id] = NullProfile]
                ELSE users
    /\ IF removePic
       THEN /\ profileDir' = profileDir \ {picfile[user_id]}
            /\ picfile' = Pop(picfile, user_id)
       ELSE UNCHANGED <<picfile, profileDir>>
    /\ session' = PopUntilMissing(session, PopKeys)
    /\ resp' = IF CanPopAll(session)
               THEN Redirect("index", 0,
                        <<"Your account has been successfully deleted.">>, db)
               ELSE \* KeyError is caught, and url_for('profile') is called
                    \* without a user_id
                    RedirectTo("profile", 0,
                        <<"Something went wrong while deleting your account. Please try again.">>,
                        db)
    /\ UNCHANGED <<userpass, posts, postfiles, nextPid, postDir>>

search_users ==
    /\ Idle
    /\ UNCHANGED flight
    /\ req' = Request("search_users", "GET", 0)
    /\ resp' = IF ~is_logged_in
               THEN Redirect("index", 0, <<NotLoggedInMsg>>, {})
               ELSE Render("search/users.html", << >>, {"search_by_user"})
    /\ UNCHANGED <<session, store, uploads>>

-----------------------------------------------------------------------------
(* post_queries: posts and attachment records *)

PostFields == {"header", "post_type", "host_name", "target_audience",
               "job_role", "job_level", "post_body"}

Form1 == [header |-> "Networking Night", post_type |-> "event",
          host_name |-> "Career Ed", target_audience |-> "students",
          job_role |-> "", job_level |-> "", post_body |-> "networking tips"]
Form2 == [Form1 EXCEPT !.header = "Resume Lab"]
PostForms == {Form1, Form2}

Form3 == [Form1 EXCEPT !.post_body = "bring a resume"]

\* get_post_info: the post's row, None for an unknown id
PostExists(post_id) == post_id \in DOMAIN posts

\* serve_post_file: the attachment records of a post
FilesOf(post_id) == {r \in postfiles : r.post_id = post_id}
Attachment(post_id, filename) == [post_id |-> post_id, filename |-> filename]

\* post_queries.edit_post: the fields whose submitted value differs from the
\* row read at the start of the request; only those are written.
Updates(post_info, form) == {f \in PostFields : form[f] # post_info[f]}
ApplyUpdates(row, post_info, form) ==
    [f \in DOMAIN row |-> IF f \in Updates(post_info, form) THEN form[f] ELSE row[f]]

RECURSIVE FlashUpdates(_)
FlashUpdates(fields) ==
    IF fields = {} THEN << >>
    ELSE LET f == CHOOSE x \in fields : TRUE
         IN  <<"Successfully updated " \o f \o "!">> \o FlashUpdates(fields \ {f})

-----------------------------------------------------------------------------
(* Post attachments on disk *)

InvalidTypeMsg ==
    "Invalid file type. Allowed: png, jpg, jpeg, webp, pdf, doc, docx, xls, xlsx."
UploadedMsg == "File successfully uploaded."

\* The upload loop of create_post: each named file is saved and recorded in
\* turn; the first file that save_post_file refuses ends the loop, with the
\* files before it already stored.
RECURSIVE UploadAll(_, _, _)
UploadAll(files, post_id, acc) ==
    IF files = << >> THEN acc
    ELSE LET saved == save_post_file(Head(files).filename, post_id) IN
         IF saved.result = "none" THEN UploadAll(Tail(files), post_id, acc)
         ELSE IF saved.result = "raise"
         THEN [acc EXCEPT !.failed = TRUE,
                          !.flash = @ \o <<IF HasDot(Head(files).filename)
                                           THEN InvalidTypeMsg
                                           ELSE "list index out of range">>]
         ELSE UploadAll(Tail(files), post_id,
                        [acc EXCEPT !.dir = @ \cup {saved.filename},
                                    !.records = @ \cup
                                        {Attachment(post_id, saved.filename)},
                                    !.flash = @ \o <<UploadedMsg>>,
                                    !.db = @ \cup {"upload_post_file"}])

\* delete_post_file(filename): os.remove of the name in POST_UPLOADS, whatever
\* post it belongs to; it raises when there is no such file.
CanRemove(dir, filename) == filename \in dir
RemoveFile(dir, filename) == dir \ {filename}

\* The deletion loop of edit_post: for each listed name the record
\* (post_id, name) is deleted, then the file is removed from disk; an
\* exception is flashed and the loop goes on.
RECURSIVE DeleteAll(_, _, _)
DeleteAll(names, post_id, acc) ==
    IF names = << >> THEN acc
    ELSE LET name == Head(names)
             records == acc.records \ {Attachment(post_id, name)}
         IN  IF CanRemove(acc.dir, name)
             THEN DeleteAll(Tail(names), post_id,
                      [acc EXCEPT !.records = records,
                                  !.dir = RemoveFile(@, name),
                                  !.flash = @ \o <<"Successfully deleted">>])
             ELSE DeleteAll(Tail(names), post_id,
                      [acc EXCEPT !.records = records,
                                  !.flash = @ \o <<"Error: failed to delete file(s)">>])

-----------------------------------------------------------------------------
(* Posts *)

\* Names a client can put in a URL or in delete_files[]: the names uploads are
\* stored under, and one that was never stored.
GhostName == <<"9", "_", "x", ".", "pdf">>
StoredNames == {PostFilename(p, n) : p \in Pids, n \in {APdf}}
ClientNames == StoredNames \cup {GhostName}

\* The delete_files[] lists a client submits to edit_post.
DeleteLists ==
    {<< >>} \cup {<<n>> : n \in ClientNames} \cup
    {<<PostFilename(1, APdf), PostFilename(2, APdf)>>,
     <<GhostName, PostFilename(1, APdf)>>}

\* send_from_directory(POST_UPLOADS, filename): post_id takes no part in it
post_file(post_id, filename) ==
    /\ Idle
    /\ UNCHANGED flight
    /\ req' = Request("post_file", "GET", post_id) @@ [filename |-> filename]
    /\ resp' = IF ~is_logged_in
               THEN Redirect("index", 0, <<NotLoggedInMsg>>, {})
               ELSE IF filename \in postDir
               THEN SendFile("POST_UPLOADS", filename, {})
               ELSE Response("notfound", "404", 0, << >>, {}, filename)
    /\ UNCHANGED <<session, store, uploads>>

\* The view has no branch for an unknown id: post_info['header'] of a post
\* that was not found raises.
postPage(post_id) ==
    IF ~is_logged_in
    THEN Redirect("index", 0, <<NotLoggedInMsg>>, {})
    ELSE IF PostExists(post_id)
    THEN Render("post/view.html", << >>, {"get_post_info", "serve_post_file"})
    ELSE Unhandled(<< >>, {"get_post_info", "serve_post_file"})

post(post_id) ==
    /\ Idle
    /\ UNCHANGED flight
    /\ req' = Request("post", "GET", post_id)
    /\ resp' = postPage(post_id)
    /\ UNCHANGED <<session, store, uploads>>

create_postPage ==
    IF ~is_logged_in
    THEN Redirect("index", 0, <<NotLoggedInMsg>>, {})
    ELSE Render("post/create.html", << >>, {})

create_postGet ==
    /\ Idle
    /\ UNCHANGED flight
    /\ req' = Request("create_post", "GET", 0)
    /\ resp' = create_postPage
    /\ UNCHANGED <<session, store, uploads>>

\* The POST of create_post by a logged-in user.
create_postBody(form, new_files) ==
    LET post_id == nextPid
        up == UploadAll(new_files, post_id,
                        [dir |-> postDir, records |-> postfiles, flash |-> << >>,
                         db |-> {"create_post"}, failed |-> FALSE])
    IN
    /\ nextPid <= MaxPosts
    /\ req' = Request("create_post", "POST", 0) @@
               [form |-> form, new_files |-> new_files]
    \* the post row is inserted before any file is looked at
    /\ posts' = Put(posts, post_id, form @@ [posted_by |-> SessionUid])
    /\ nextPid' = nextPid + 1
    /\ postfiles' = up.records
    /\ postDir' = up.dir
    /\ resp' = IF up.failed
               THEN Redirect("create_post", 0, up.flash, up.db)
               ELSE Redirect("post", post_id, up.flash, up.db)
    /\ UNCHANGED <<session, userpass, users, picfile, profileDir>>

\* The form and the files are read only after the login check.
create_postPost ==
    /\ Idle
    /\ UNCHANGED flight
    /\ IF ~is_logged_in
       THEN /\ req' = Request("create_post", "POST", 0)
            /\ resp' = Redirect("index", 0, <<NotLoggedInMsg>>, {})
            /\ UNCHANGED <<session, store, uploads>>
       ELSE \E form \in PostForms, new_files \in NewFileLists :
                create_postBody(form, new_files)

IsAuthorAlways(user_id, post_info) == TRUE

IsAuthor(user_id, post_info) == user_id = post_info.posted_by

DeniedMsg == "Access denied: Only post author is authorized to edit this post."
NoChangesMsg == "No changes were made to the post."
UnexpectedMsg == "An unexpected error occurred"

\* The start of edit_post, common to GET, delete and update: the login check,
\* the read of the post and the author check.
EditGate(post_id) ==
    IF ~is_logged_in THEN "login"
    ELSE IF ~PostExists(post_id) THEN "missing"
    ELSE IF ~IsAuthor(SessionUid, posts[post_id]) THEN "denied"
    ELSE "ok"

EditRefusal(post_id) ==
    CASE EditGate(post_id) = "login" -> Redirect("index", 0, <<NotLoggedInMsg>>, {})
      [] EditGate(post_id) = "missing" ->
             \* post_info is None and post_info.get raises AttributeError
             Unhandled(<< >>, {"get_post_info"})
      [] OTHER -> Redirect("post", post_id, <<DeniedMsg>>, {"get_post_info"})

edit_postPage(post_id) ==
    IF EditGate(post_id) = "ok"
    THEN Render("post/edit.html", << >>, {"get_post_info", "serve_post_file"})
    ELSE EditRefusal(post_id)

edit_postGet(post_id) ==
    /\ Idle
    /\ UNCHANGED flight
    /\ req' = Request("edit_post", "GET", post_id)
    /\ resp' = edit_postPage(post_id)
    /\ UNCHANGED <<session, store, uploads>>

\* post_queries.delete_post removes the post's row and its attachment rows;
\* the handler removes nothing from POST_UPLOADS.
edit_postDelete(post_id) ==
    /\ Idle
    /\ UNCHANGED flight
    /\ req' = Request("edit_post", "POST", post_id) @@
               [submit |-> "Delete Entire Post"]
    /\ IF EditGate(post_id) = "ok"
       THEN /\ posts' = Pop(posts, post_id)
            /\ postfiles' = postfiles \ FilesOf(post_id)
            /\ resp' = Redirect("home", 0, <<"Post was deleted successfully">>,
                                {"get_post_info", "delete_post"})
       ELSE /\ resp' = EditRefusal(post_id)
            /\ UNCHANGED <<posts, postfiles>>
    /\ UNCHANGED <<session, userpass, users, picfile, nextPid, uploads>>

\* The update branch of edit_post, reached by the author of the post.
edit_postBody(post_id, form, files_to_delete, input_file) ==
    LET post_info == posts[post_id]
        del == DeleteAll(files_to_delete, post_id,
                         [records |-> postfiles, dir |-> postDir, flash |-> << >>])
        updates == Updates(post_info, form)
        hasUpload == input_file.present /\ input_file.filename # EmptyName
        saved == save_post_file(input_file.filename, post_id)
        db == {"get_post_info", "edit_post"} \cup
              (IF files_to_delete # << >> THEN {"delete_post_file"} ELSE {})
        flash == del.flash \o FlashUpdates(updates)
    IN
    /\ EditGate(post_id) = "ok"
    /\ req' = Request("edit_post", "POST", post_id) @@
               [submit |-> "Update Post", form |-> form,
                delete_files |-> files_to_delete, input_file |-> input_file]
    /\ posts' = [posts EXCEPT ![post_id] = ApplyUpdates(@, post_info, form)]
    /\ IF hasUpload /\ saved.result = "ok"
       THEN /\ postfiles' = del.records \cup {Attachment(post_id, saved.filename)}
            /\ postDir' = del.dir \cup {saved.filename}
            /\ resp' = Redirect("post", post_id, flash \o <<UploadedMsg>>,
                                db \cup {"upload_post_file"})
       ELSE /\ postfiles' = del.records
            /\ postDir' = del.dir
            /\ resp' =
                 IF hasUpload
                 THEN \* save_post_file raised: back to the same URL
                      Redirect("edit_post", post_id,
                               flash \o <<IF HasDot(input_file.filename)
                                          THEN InvalidTypeMsg
                                          ELSE "list index out of range">>, db)
                 ELSE IF updates # {}
                 THEN Redirect("post", post_id, flash, db)
                 ELSE IF ~input_file.present
                 THEN \* input_file is None: input_file.filename raises and
                      \* the outer handler reports it
                      Redirect("home", 0, flash \o <<UnexpectedMsg>>, db)
                 ELSE IF files_to_delete = << >>
                 THEN Redirect("post", post_id, flash \o <<NoChangesMsg>>, db)
                 ELSE Redirect("post", post_id, flash, db)
    /\ UNCHANGED <<session, userpass, users, picfile, nextPid, profileDir>>

\* The request bodies a client submits to the update branch of edit_post.
EditBodies ==
    {[form |-> f, delete_files |-> d, input_file |-> Part(EmptyName)] :
         f \in PostForms, d \in DeleteLists} \cup
    {[form |-> f, delete_files |-> << >>, input_file |-> i] :
         f \in PostForms, i \in {NoPart, Part(APdf), Part(AExe)}} \cup
    {[form |-> Form1, delete_files |-> <<n>>, input_file |-> i] :
         n \in StoredNames, i \in {NoPart, Part(APdf), Part(AExe)}}

\* The form is read only after the login check, the read of the post and the
\* author check.
edit_postUpdate(post_id) ==
    /\ Idle
    /\ UNCHANGED flight
    /\ IF EditGate(post_id) # "ok"
       THEN /\ req' = Request("edit_post", "POST", post_id) @@
                       [submit |-> "Update Post"]
            /\ resp' = EditRefusal(post_id)
            /\ UNCHANGED <<session, store, uploads>>
       ELSE \E b \in EditBodies :
                edit_postBody(post_id, b.form, b.delete_files, b.input_file)

search_posts ==
    /\ Idle
    /\ UNCHANGED flight
    /\ req' = Request("search_posts", "GET", 0)
    /\ resp' = IF ~is_logged_in
               THEN Redirect("index", 0, <<NotLoggedInMsg>>, {})
               ELSE Render("search/posts.html", << >>,
                           {"get_latest_posts", "search_posts"})
    /\ UNCHANGED <<session, store, uploads>>

mentorship(method) ==
    /\ Idle
    /\ UNCHANGED flight
    /\ req' = Request("mentorship", method, 0)
    /\ resp' = IF ~is_logged_in
               THEN Redirect("index", 0, <<NotLoggedInMsg>>, {})
               ELSE IF method = "GET"
               THEN Render("mentorship.html", << >>, {})
               ELSE Redirect("home", 0,
                             <<"Thank you for filling out the mentorship form!">>, {})
    /\ UNCHANGED <<session, store, uploads>>

-----------------------------------------------------------------------------
(* Requests handled step by step *)

\* The server handles requests of several clients at a time; a worker takes a
\* request through the statements of its handler, and the statements of two
\* workers interleave at every read or write of the store and of the disk.
Workers == {1, 2}

NoPostInfo == Form1 @@ [posted_by |-> 0]

NoFlight ==
    [pc |-> "idle", handler |-> "", id |-> 0, uid |-> 0, post_info |-> NoPostInfo,
     form |-> Form1, files_to_delete |-> << >>, input_file |-> NoPart,
     path |-> EmptyName, flash |-> << >>]

At(w, pc) == flight[w].pc = pc

\* The worker goes on with the given fields of its position changed.
Step(w, changes) == flight' = [flight EXCEPT ![w] = changes @@ @]

AfterRemoveAbort(failed, rest) ==
    IF failed THEN "respond" ELSE IF rest = << >> THEN "update" ELSE "delete"

\* The deletion loop goes on to the next listed name, and to the field update
\* after the last one, whether or not the removal raised.
AfterRemove(failed, rest) == IF rest = << >> THEN "update" ELSE "delete"

\* edit_post by the author of the post, with "Update Post": the login check,
\* the read of the post, the author check and the read of the form.  uid is
\* the user_id of the session the request came with.
edit_postRead(w, post_id, uid, body) ==
    /\ At(w, "idle")
    /\ uid \in DOMAIN userpass
    /\ PostExists(post_id)
    /\ IsAuthor(uid, posts[post_id])
    /\ flight' = [flight EXCEPT ![w] =
           [pc |-> IF body.delete_files = << >> THEN "update" ELSE "delete",
            handler |-> "edit_post", id |-> post_id, uid |-> uid,
            post_info |-> posts[post_id], form |-> body.form,
            files_to_delete |-> body.delete_files,
            input_file |-> body.input_file, path |-> EmptyName, flash |-> << >>]]
    /\ UNCHANGED <<session, store, uploads, req, resp>>

\* post_db.delete_post_file(conn, post_id, file_name)
edit_postDeleteRecord(w) ==
    /\ At(w, "delete")
    /\ postfiles' = postfiles \ {Attachment(flight[w].id, Head(flight[w].files_to_delete))}
    /\ Step(w, [pc |-> "remove"])
    /\ UNCHANGED <<session, userpass, users, picfile, posts, nextPid, uploads,
                   req, resp>>

\* delete_post_file(file_name): os.remove raises when the file is missing and
\* when the file system refuses (io_ok is FALSE); the exception is flashed and
\* the loop goes on.
edit_postRemoveFile(w, io_ok) ==
    LET name == Head(flight[w].files_to_delete)
        rest == Tail(flight[w].files_to_delete)
        removed == CanRemove(postDir, name) /\ io_ok
    IN
    /\ At(w, "remove")
    /\ postDir' = IF removed THEN RemoveFile(postDir, name) ELSE postDir
    /\ Step(w, [pc |-> AfterRemove(~removed, rest),
                files_to_delete |-> rest,
                flash |-> flight[w].flash \o
                          <<IF removed THEN "Successfully deleted"
                            ELSE "Error: failed to delete file(s)">>])
    /\ UNCHANGED <<session, store, profileDir, req, resp>>

\* post_db.edit_post(conn, post_id, post_info, ...): the fields that differ
\* from the row read at the start of the request are written.
edit_postApply(w) ==
    LET f == flight[w] IN
    /\ At(w, "update")
    /\ PostExists(f.id)
    /\ posts' = [posts EXCEPT ![f.id] = ApplyUpdates(@, f.post_info, f.form)]
    /\ Step(w, [pc |-> "upload",
                flash |-> f.flash \o FlashUpdates(Updates(f.post_info, f.form))])
    /\ UNCHANGED <<session, userpass, users, picfile, postfiles, nextPid, uploads,
                   req, resp>>

\* save_post_file up to the path of the new file: the extension check and the
\* name under which the file will be stored.
edit_postUpload(w) ==
    LET f == flight[w]
        hasUpload == f.input_file.present /\ f.input_file.filename # EmptyName
        saved == save_post_file(f.input_file.filename, f.id)
    IN
    /\ At(w, "upload")
    /\ IF hasUpload /\ saved.result = "ok"
       THEN Step(w, [pc |-> "save", path |-> saved.filename])
       ELSE IF hasUpload
       THEN Step(w, [pc |-> "respond",
                     flash |-> f.flash \o <<IF HasDot(f.input_file.filename)
                                            THEN InvalidTypeMsg
                                            ELSE "list index out of range">>])
       ELSE Step(w, [pc |-> "respond"])
    /\ UNCHANGED <<session, store, uploads, req, resp>>

\* file.save(save_path) in POST_UPLOADS
edit_postSave(w) ==
    /\ At(w, "save")
    /\ flight[w].handler = "edit_post"
    /\ postDir' = postDir \cup {flight[w].path}
    /\ Step(w, [pc |-> "record"])
    /\ UNCHANGED <<session, store, profileDir, req, resp>>

\* post_db.upload_post_file(conn, post_id, new_filename)
edit_postRecord(w) ==
    /\ At(w, "record")
    /\ flight[w].handler = "edit_post"
    /\ postfiles' = postfiles \cup {Attachment(flight[w].id, flight[w].path)}
    /\ Step(w, [pc |-> "respond", flash |-> flight[w].flash \o <<UploadedMsg>>])
    /\ UNCHANGED <<session, userpass, users, picfile, posts, nextPid, uploads,
                   req, resp>>

PictureHandlers == {"profile_setup", "update_profile"}

\* profile_setup and update_profile by a logged-in user with a picture of an
\* allowed extension, up to the path of the picture; profile_setup has
\* written the profile attributes by then.
pictureBegin(w, handler, uid, form, pic) ==
    /\ At(w, "idle")
    /\ uid \in DOMAIN users
    /\ pic.present
    /\ pic.filename # EmptyName
    /\ IsAllowed(PicExt(pic.filename), allowed_extensions)
    /\ users' = IF handler = "profile_setup"
                THEN [users EXCEPT ![uid] = UserData(form)]
                ELSE users
    /\ flight' = [flight EXCEPT ![w] =
           [NoFlight EXCEPT !.pc = "save", !.handler = handler, !.id = uid,
                            !.uid = uid, !.form = form, !.input_file = pic,
                            !.path = PicFilename(uid, PicExt(pic.filename))]]
    /\ UNCHANGED <<session, userpass, picfile, posts, postfiles, nextPid, uploads,
                   req, resp>>

\* f.save(pathname) in PROFILE_UPLOADS
pictureSave(w) ==
    /\ At(w, "save")
    /\ flight[w].handler \in PictureHandlers
    /\ profileDir' = profileDir \cup {flight[w].path}
    /\ Step(w, [pc |-> "record"])
    /\ UNCHANGED <<session, store, postDir, req, resp>>

\* user_db.upload_profile_pic(conn, user_id, filename), and in update_profile
\* the write of the profile attributes that follows it.
pictureRecord(w) ==
    /\ At(w, "record")
    /\ flight[w].handler \in PictureHandlers
    /\ picfile' = Put(picfile, flight[w].id, flight[w].path)
    /\ users' = IF flight[w].handler = "update_profile"
                THEN [users EXCEPT ![flight[w].id] = UserData(flight[w].form)]
                ELSE users
    /\ Step(w, [pc |-> "respond"])
    /\ UNCHANGED <<session, userpass, posts, postfiles, nextPid, uploads, req, resp>>

\* The handler returns its response.
respond(w) ==
    /\ At(w, "respond")
    /\ flight' = [flight EXCEPT ![w] = NoFlight]
    /\ UNCHANGED <<session, store, uploads, req, resp>>

-----------------------------------------------------------------------------
(* The application *)

Init ==
    /\ session = << >>
    /\ userpass = << >>
    /\ users = << >>
    /\ picfile = << >>
    /\ profileDir = {DefaultPic}
    /\ posts = << >>
    /\ postfiles = {}
    /\ postDir = {}
    /\ nextPid = 1
    /\ req = NoRequest
    /\ resp = NoResponse
    /\ flight = [w \in Workers |-> NoFlight]

\* Requests of the welcome, signup, login and logout pages.
SessionRequests ==
    \/ index
    \/ home
    \/ signupGet
    \/ \E u \in Usernames, p2 \in Passwords : signupPost(u, "pw1", p2)
    \/ \E u \in Usernames, p \in Passwords : login(u, p)
    \/ logout
    \/ \E m \in {"GET", "POST"} : mentorship(m)

\* Requests of the profile pages.
ProfileRequests ==
    \/ \E u \in Uids : profile_pic(u)
    \/ \E u \in Uids : profile(u)
    \/ profile_setupGet
    \/ \E f \in ProfileForms, n \in PicUploadNames : profile_setupPost(f, Part(n))
    \/ \E f \in ProfileForms : profile_setupPost(f, NoPart)
    \/ update_profileGet
    \/ \E f \in ProfileForms, d \in {"yes", "no"}, n \in PicUploadNames :
           update_profilePost(f, d, Part(n))
    \/ \E f \in ProfileForms : update_profilePost(f, "no", NoPart)
    \/ delete_profile
    \/ search_users

\* Requests of the post pages.
PostRequests ==
    \/ \E p \in Pids, n \in ClientNames : post_file(p, n)
    \/ \E p \in Pids : post(p)
    \/ create_postGet
    \/ create_postPost
    \/ \E p \in Pids : edit_postGet(p)
    \/ \E p \in Pids : edit_postDelete(p)
    \/ \E p \in Pids : edit_postUpdate(p)
    \/ search_posts

Next == SessionRequests \/ ProfileRequests \/ PostRequests \/ restart \/ deliver

Spec == Init /\ [][Next]_vars

\* The application restricted to the session and profile pages.
NextAccounts == SessionRequests \/ ProfileRequests \/ restart \/ deliver

SpecAccounts == Init /\ [][NextAccounts]_vars

\* The application restricted to the session and post pages.
NextPosts == SessionRequests \/ PostRequests \/ restart \/ deliver

SpecPosts == Init /\ [][NextPosts]_vars

\* A state the application reaches: ann (uid 1) and bob (uid 2) have signed
\* up, each has created a post with the attachment a.pdf, and ann has logged
\* in again.
InitPosted ==
    /\ session = [user_id |-> 1, username |-> "ann", logged_in |-> TRUE, visits |-> 2]
    /\ userpass = <<[username |-> "ann", password |-> "pw1"],
                    [username |-> "bob", password |-> "pw1"]>>
    /\ users = <<NullProfile, NullProfile>>
    /\ picfile = << >>
    /\ profileDir = {DefaultPic}
    /\ posts = <<Form1 @@ [posted_by |-> 1], Form1 @@ [posted_by |-> 2]>>
    /\ postfiles = {Attachment(1, PostFilename(1, APdf)),
                    Attachment(2, PostFilename(2, APdf))}
    /\ postDir = {PostFilename(1, APdf), PostFilename(2, APdf)}
    /\ nextPid = 3
    /\ req = NoRequest
    /\ resp = NoResponse
    /\ flight = [w \in Workers |-> NoFlight]

\* Updates of post fields only.
RaceBodies ==
    {[form |-> f, delete_files |-> << >>, input_file |-> Part(EmptyName)] :
         f \in {Form1, Form2, Form3}}

\* Two edit_post updates at a time, on any posts.
NextEditRace ==
    \/ \E w \in Workers, p \in DOMAIN posts, u \in DOMAIN userpass, b \in RaceBodies :
           edit_postRead(w, p, u, b)
    \/ \E w \in Workers : edit_postApply(w)
    \/ \E w \in Workers : edit_postUpload(w)
    \/ \E w \in Workers : respond(w)

SpecEditRace == InitPosted /\ [][NextEditRace]_vars

\* Uploads of attachments, under the client's names a.pdf and 2_a.pdf, and of
\* profile pictures.
UploadBodies ==
    {[form |-> Form1, delete_files |-> << >>, input_file |-> Part(n)] :
         n \in {APdf, PostFilename(2, APdf)}}

PictureNames == {BPng, <<"2", ".", "jpg">>}

\* Two uploads at a time, of attachments and of profile pictures.
NextUploads ==
    \/ \E w \in Workers, p \in DOMAIN posts, u \in DOMAIN userpass, b \in UploadBodies :
           edit_postRead(w, p, u, b)
    \/ \E w \in Workers : edit_postApply(w)
    \/ \E w \in Workers : edit_postUpload(w)
    \/ \E w \in Workers : edit_postSave(w)
    \/ \E w \in Workers : edit_postRecord(w)
    \/ \E w \in Workers, h \in PictureHandlers, u \in DOMAIN users, n \in PictureNames :
           pictureBegin(w, h, u,
                        [major |-> "cs", is_interested_in_mentorship |-> "on",
                         career_interests |-> <<"tech", "law">>], Part(n))
    \/ \E w \in Workers : pictureSave(w)
    \/ \E w \in Workers : pictureRecord(w)
    \/ \E w \in Workers : respond(w)

SpecUploads == InitPosted /\ [][NextUploads]_vars

\* Updates that delete attachments: the post's own a.pdf, a name of no file,
\* or both.
DeleteBodies(post_id) ==
    {[form |-> f, delete_files |-> d, input_file |-> i] :
         f \in PostForms,
         d \in {<<PostFilename(post_id, APdf)>>, <<GhostName>>,
                <<PostFilename(post_id, APdf), GhostName>>,
                <<GhostName, PostFilename(post_id, APdf)>>},
         i \in {Part(EmptyName), Part(APdf), Part(AExe)}}

\* One edit_post update at a time, taken statement by statement.
NextEditAlone ==
    \/ \E p \in DOMAIN posts, u \in DOMAIN userpass :
           \E b \in DeleteBodies(p) : edit_postRead(1, p, u, b)
    \/ edit_postDeleteRecord(1)
    \/ \E io_ok \in BOOLEAN : edit_postRemoveFile(1, io_ok)
    \/ edit_postApply(1)
    \/ edit_postUpload(1)
    \/ edit_postSave(1)
    \/ edit_postRecord(1)
    \/ respond(1)

SpecEditAlone == InitPosted /\ [][NextEditAlone]_vars

-----------------------------------------------------------------------------
(* Properties *)

GatedHandlers ==
    {"home", "profile_pic", "post_file", "profile", "profile_setup",
     "update_profile", "delete_profile", "search_users", "post", "create_post",
     "edit_post", "search_posts", "mentorship", "logout"}

\* C1: a request to a gated handler made without user_id in the session is
\* answered with a redirect to the welcome page, calls no store function and
\* changes neither the store nor the upload directories.
C1_GatedWithoutLogin ==
    [][(req'.handler \in GatedHandlers /\ req'.uid = 0)
          => /\ resp'.kind = "redirect"
             /\ resp'.page = "index"
             /\ resp'.db = {}
             /\ UNCHANGED <<store, uploads>>]_vars

\* C2: an edit_post request changes or deletes a post's fields, its attachment
\* records or the post record only when the session's user_id is the post's
\* posted_by; the request of another logged-in user on an existing post is
\* answered "access denied" with a redirect to the post view and leaves the
\* store and the upload directories as they were.
C2_EditOnlyByAuthor ==
    [][req'.handler = "edit_post"
          => /\ \A p \in DOMAIN posts :
                    posts[p].posted_by # req'.uid
                        => /\ p \in DOMAIN posts'
                           /\ posts'[p] = posts[p]
                           /\ {r \in postfiles' : r.post_id = p} = FilesOf(p)
             /\ (/\ req'.uid # 0
                 /\ req'.arg \in DOMAIN posts
                 /\ posts[req'.arg].posted_by # req'.uid)
                    => /\ resp'.kind = "redirect"
                       /\ resp'.page = "post"
                       /\ resp'.arg = req'.arg
                       /\ resp'.flash = <<DeniedMsg>>
                       /\ UNCHANGED <<store, uploads>>]_vars

\* C2 witness: a logged-in user who is not the author has posted an update to
\* an existing post and was refused.
C2_Witness ==
    /\ req.handler = "edit_post"
    /\ req.method = "POST"
    /\ req.uid # 0
    /\ req.arg \in DOMAIN posts
    /\ posts[req.arg].posted_by # req.uid
    /\ Flashed(DeniedMsg)

\* C3: an edit_post request removes from POST_UPLOADS only files that are
\* attachments of the post being edited, whose author makes the request; a
\* file recorded as the attachment of another post stays on disk whatever
\* delete_files[] lists.
C3_RemovesOnlyOwnFiles ==
    [][req'.handler = "edit_post"
          => \A r \in postfiles :
                 (r.filename \in postDir /\ r.filename \notin postDir')
                     => /\ r.post_id = req'.arg
                        /\ r.post_id \in DOMAIN posts
                        /\ posts[r.post_id].posted_by = req'.uid]_vars

\* C4: post_file(post_id, filename) serves a file only when filename is
\* recorded as an attachment of the post post_id.
C4_ServesOnlyOwnAttachment ==
    (req.handler = "post_file" /\ resp.kind = "file")
        => Attachment(req.arg, req.filename) \in postfiles

\* An upload that save_post_file refuses for its extension.
Disallowed(name) ==
    name # EmptyName /\ HasDot(name) /\ ~IsAllowed(PostExt(name), ALLOWED_EXTENSIONS)

\* C5: a create_post or edit_post update request that carries an upload with
\* a disallowed extension changes no post record, no attachment record and
\* no file of POST_UPLOADS.
C5_RejectedBeforeMutation ==
    [][(\/ /\ req'.handler = "create_post"
           /\ "new_files" \in DOMAIN req'
           /\ \E i \in DOMAIN req'.new_files : Disallowed(req'.new_files[i].filename)
        \/ /\ req'.handler = "edit_post"
           /\ "input_file" \in DOMAIN req'
           /\ Disallowed(req'.input_file.filename))
          => UNCHANGED <<posts, postfiles, nextPid, postDir>>]_vars

\* The post id a create_post request was given, and the names it submitted.
CreatedPid == nextPid - 1
NamedFiles(files) == {i \in DOMAIN files : files[i].filename # EmptyName}

\* C6: after a create_post request with files, either the post exists with
\* the record and the file of every submitted attachment, or neither the
\* post nor any attachment of it exists.
C6_CreateAtomic ==
    (/\ req.handler = "create_post"
     /\ "new_files" \in DOMAIN req
     /\ NamedFiles(req.new_files) # {})
        => \/ /\ CreatedPid \in DOMAIN posts
              /\ \A i \in NamedFiles(req.new_files) :
                     LET name == PostFilename(CreatedPid, req.new_files[i].filename)
                     IN  /\ Attachment(CreatedPid, name) \in postfiles
                         /\ name \in postDir
           \/ /\ CreatedPid \notin DOMAIN posts
              /\ FilesOf(CreatedPid) = {}

\* C7: a profile_setup or update_profile request by a logged-in user whose
\* picture has an extension outside the allowed set is answered "invalid file
\* type" and leaves the profile attributes, the picture records and
\* PROFILE_UPLOADS as they were.
C7_InvalidPictureAborts ==
    [][(/\ req'.handler \in {"profile_setup", "update_profile"}
        /\ req'.method = "POST"
        /\ req'.uid # 0
        /\ req'.pic.present
        /\ req'.pic.filename # EmptyName
        /\ ~IsAllowed(PicExt(req'.pic.filename), allowed_extensions)
        /\ (req'.handler = "update_profile" => req'.delete_file # "yes"))
          => /\ resp'.flash = <<InvalidPicMsg>>
             /\ UNCHANGED <<users, picfile, profileDir>>]_vars

\* C8: a signup request whose passwords differ or whose username is taken
\* creates no account, leaves the session as it was and shows the signup page
\* again; the session changes in a signup request only together with the
\* insertion of the account it then names.
C8_FailedSignup ==
    [][(req'.handler = "signup" /\ req'.method = "POST")
          => /\ (req'.passwd1 # req'.passwd2 \/ UsernameTaken(req'.username))
                    => /\ UNCHANGED <<userpass, users, session>>
                       /\ resp'.kind = "render"
                       /\ resp'.page = "auth/signup.html"
             /\ session' # session
                    => /\ NewUid \in DOMAIN userpass'
                       /\ NewUid \notin DOMAIN userpass
                       /\ userpass'[NewUid].username = req'.username
                       /\ session'.user_id = NewUid
                       /\ session'.username = req'.username
                       /\ session'.logged_in
                       /\ session'.visits = 1]_vars

\* C8 witness: a signup with two different passwords has been answered with
\* the signup page while an account and a session already exist.
C8_Witness ==
    /\ req.handler = "signup"
    /\ req.method = "POST"
    /\ req.passwd1 # req.passwd2
    /\ resp.kind = "render"
    /\ userpass # << >>
    /\ Has("user_id")

\* C9: an update by the author that changes no field, uploads no file and
\* deletes no file is answered "No changes were made to the post." with a
\* redirect to the post view, and not as an unexpected error, whether the
\* file part is empty or missing.
C9_NoOpEditReported ==
    [][(/\ req'.handler = "edit_post"
        /\ "form" \in DOMAIN req'
        /\ Updates(posts[req'.arg], req'.form) = {}
        /\ req'.delete_files = << >>
        /\ req'.input_file.filename = EmptyName)
          => /\ resp'.kind = "redirect"
             /\ resp'.page = "post"
             /\ resp'.flash = <<NoChangesMsg>>]_vars

\* C10: after the author deletes a post through edit_post, the post record,
\* its attachment records and the files of those attachments in POST_UPLOADS
\* are gone.
C10_DeleteCascades ==
    [][(/\ req'.handler = "edit_post"
        /\ "submit" \in DOMAIN req'
        /\ req'.submit = "Delete Entire Post"
        /\ resp'.page = "home")
          => /\ req'.arg \notin DOMAIN posts'
             /\ \A r \in postfiles' : r.post_id # req'.arg
             /\ \A r \in FilesOf(req'.arg) : r.filename \notin postDir']_vars

\* C11: a request by a logged-in user for a profile or a post that does not
\* exist (profile, post, edit_post with an unknown id) is reported with a
\* flashed message and answered with a redirect to the home page; it never ends
\* in an unhandled error.
C11_NotFoundReported ==
    [][(/\ req'.uid # 0
        /\ \/ req'.handler = "profile" /\ req'.arg \notin DOMAIN users
           \/ req'.handler \in {"post", "edit_post"} /\ ~PostExists(req'.arg))
          => /\ resp'.kind = "redirect"
             /\ resp'.page = "home"
             /\ resp'.flash # << >>]_vars

\* The number of uploads a response reports as accepted.
Accepted(flash) == Cardinality({i \in DOMAIN flash : flash[i] = UploadedMsg})

\* C12: every accepted attachment upload is stored under a filename of its
\* own: the accepted uploads of a create_post request add as many files to
\* POST_UPLOADS as were accepted, and the accepted upload of an edit_post
\* request is stored under a name that no attachment on disk has, unless the
\* same request deleted that attachment first.
C12_StoredNamesUnique ==
    [][/\ req'.handler = "create_post"
            => Cardinality(postDir') = Cardinality(postDir) + Accepted(resp'.flash)
       /\ (req'.handler = "edit_post" /\ Accepted(resp'.flash) > 0)
            => LET name == PostFilename(req'.arg, req'.input_file.filename)
               IN  \/ name \notin postDir
                   \/ \E i \in DOMAIN req'.delete_files :
                          req'.delete_files[i] = name]_vars

\* The accounts whose username and password are the ones a login submits.
Matching(username, password) ==
    {u \in DOMAIN userpass : /\ userpass[u].username = username
                             /\ userpass[u].password = password}

\* C15: a login that fails, because no account has the username or the
\* password is not the account's, flashes the error, redirects to the welcome
\* page and leaves the session as it was; a login that succeeds sets user_id
\* to the uid of the matched account and adds one to visits, or sets visits
\* to 1 when the session had none.
C15_LoginSession ==
    [][req'.handler = "login"
          => LET matched == Matching(req'.username, req'.password) IN
             /\ matched = {}
                    => /\ UNCHANGED session
                       /\ resp'.kind = "redirect"
                       /\ resp'.page = "index"
                       /\ resp'.flash # << >>
             /\ \A u \in matched :
                    /\ session'.user_id = u
                    /\ session'.visits = IF Has("visits")
                                         THEN session.visits + 1 ELSE 1
                    /\ resp'.page = "home"]_vars

\* C15 witness: a login with a wrong password has been refused in a session
\* that an earlier login had already counted as its second visit.
C15_Witness ==
    /\ req.handler = "login"
    /\ Flashed("Incorrect password. Please try again.")
    /\ Has("user_id")
    /\ Has("visits")
    /\ session.visits = 2

LoginKeys == {"user_id", "username", "logged_in"}

\* C16: after every request the session keys user_id, username and logged_in
\* are all present or all absent, and a logout on a session that has user_id
\* removes the three and is answered with the redirect to the welcome page,
\* never with an error.
C16_LoginKeysTogether ==
    [][/\ \/ LoginKeys \subseteq DOMAIN session'
          \/ LoginKeys \cap DOMAIN session' = {}
       /\ (req'.handler = "logout" /\ req'.uid # 0)
            => /\ LoginKeys \cap DOMAIN session' = {}
               /\ resp'.kind = "redirect"
               /\ resp'.page = "index"]_vars

\* C16 witness: a logout has removed the three keys from a session that keeps
\* its visit counter.
C16_Witness ==
    /\ req.handler = "logout"
    /\ req.uid # 0
    /\ Flashed("You are logged out")
    /\ DOMAIN session = {"visits"}

\* The answer to the GET request that a client makes when it follows a
\* redirect to the page.
View(page, arg) ==
    CASE page = "index" -> indexPage
      [] page = "home" -> homePage
      [] page = "profile_setup" -> profile_setupPage
      [] page = "profile" -> profilePage(arg)
      [] page = "post" -> postPage(arg)
      [] page = "create_post" -> create_postPage
      [] page = "edit_post" -> edit_postPage(arg)

\* The response a client ends with when it follows at most n redirects.
RECURSIVE Follow(_, _)
Follow(r, n) ==
    IF r.kind # "redirect" \/ n = 0 THEN r
    ELSE Follow(View(r.page, r.arg), n - 1)

\* A handler called url_for on a route without the value its URL needs.
Unbuildable(r) == r.kind = "error" /\ ~Buildable(r.page, r.arg)

\* C18: no handler issues a redirect whose target cannot be built, and a
\* client that follows the redirects of a response reaches a rendered page
\* within MaxHops requests.
C18_RedirectsReachPage ==
    /\ ~Unbuildable(resp)
    /\ resp.kind = "redirect" => Follow(resp, MaxHops).kind = "render"

\* The directory an upload is written to, the path written in it, and the
\* entity (a user or a post) the upload is for.
UploadDir(f) == IF f.handler = "edit_post" THEN "POST_UPLOADS" ELSE "PROFILE_UPLOADS"
Target(f) == <<UploadDir(f), f.path>>
Entity(f) == <<UploadDir(f), f.id>>
HasTarget(f) == f.pc \in {"save", "record"}

\* C13: under any interleaving of upload requests, when an upload writes its
\* file, the path is not the path that an upload in progress for a different
\* entity writes or has written, and it is not the recorded file of a
\* different entity: not the attachment of another post, not the picture of
\* another user.
C13_DistinctEntitiesDistinctPaths ==
    [][\A w \in Workers :
          (flight[w].pc = "save" /\ flight'[w].pc = "record")
              => /\ \A v \in Workers :
                        (HasTarget(flight[v]) /\ Entity(flight[v]) # Entity(flight[w]))
                            => Target(flight[v]) # Target(flight[w])
                 /\ flight[w].handler = "edit_post"
                        => \A r \in postfiles :
                               r.filename = flight[w].path => r.post_id = flight[w].id
                 /\ flight[w].handler \in PictureHandlers
                        => \A u \in DOMAIN picfile :
                               picfile[u] = flight[w].path => u = flight[w].id]_vars

\* C13 witness: the uploads of two posts, both sent under the client's name
\* a.pdf, have both written their files and not yet recorded them.
C13_Witness ==
    /\ \A w \in Workers : /\ flight[w].pc = "record"
                          /\ flight[w].handler = "edit_post"
                          /\ flight[w].input_file.filename = APdf
    /\ flight[1].id # flight[2].id

\* C14: when two edit_post updates of the same post are in progress at a time
\* and one has applied its changes, the update that the other applies after
\* it leaves every field of the post with the value that this last request
\* submitted.
C14_LastWriteWins ==
    [][\A w \in Workers, v \in Workers :
          (/\ v # w
           /\ flight[v].handler = "edit_post"
           /\ flight[v].id = flight[w].id
           /\ flight[v].pc \in {"upload", "respond"}
           /\ flight[w].pc = "update"
           /\ flight'[w].pc = "upload")
              => \A f \in PostFields : posts'[flight[w].id][f] = flight[w].form[f]]_vars

RemovalFailedMsg == "Error: failed to delete file(s)"

\* C17: in an edit_post update the listed files are taken one at a time and
\* the record of a file is deleted before the file is removed from disk; a
\* removal that fails is flashed, leaves POST_UPLOADS as it was with the
\* record already deleted, and the request goes on with the next listed
\* file and then the field update; when the request responds, every listed
\* file has been taken, the submitted fields are stored, and the upload has
\* been stored and recorded or refused.
C17_DeletionsOneByOne ==
    [][\A w \in Workers :
          LET f == flight[w]
              g == flight'[w]
              name == Head(f.files_to_delete)
              rest == Tail(f.files_to_delete)
              upload == f.input_file.filename
          IN
          /\ (f.handler = "edit_post" /\ postDir \ postDir' # {})
                => /\ f.pc = "remove"
                   /\ postDir \ postDir' = {name}
                   /\ Attachment(f.id, name) \notin postfiles
          /\ (f.pc = "remove" /\ g.pc # "remove"
              /\ g.flash = f.flash \o <<RemovalFailedMsg>>)
                => /\ postDir' = postDir
                   /\ Attachment(f.id, name) \notin postfiles'
                   /\ g.files_to_delete = rest
                   /\ g.pc = IF rest = << >> THEN "update" ELSE "delete"
          /\ (f.pc = "respond" /\ f.handler = "edit_post" /\ g.pc = "idle")
                => /\ f.files_to_delete = << >>
                   /\ \A fld \in PostFields : posts[f.id][fld] = f.form[fld]
                   /\ upload = APdf
                          => /\ PostFilename(f.id, upload) \in postDir
                             /\ Attachment(f.id, PostFilename(f.id, upload))
                                    \in postfiles
                   /\ upload = AExe
                          => f.flash[Len(f.flash)] = InvalidTypeMsg]_vars

\* C17 witness: the removal of the post's attachment has failed with the file
\* on disk; the file is still there, its record is gone, and the request has
\* gone on to write the changed header and is about to respond.
C17_Witness ==
    \E w \in Workers :
        LET f == flight[w]
            own == PostFilename(f.id, APdf)
        IN  /\ f.pc = "respond"
            /\ f.handler = "edit_post"
            /\ f.flash[1] = RemovalFailedMsg
            /\ own \in postDir
            /\ Attachment(f.id, own) \notin postfiles
            /\ f.form = Form2
            /\ posts[f.id].header = Form2.header

=============================================================================
